---------------------------- MODULE Spec2Model ----------------------------
(***************************************************************************)
(* Stop-and-Wait ARQ simulation: the error-control codecs (coder.py), the  *)
(* bit/byte helpers (utils.py), the packetizer (generator.py), the noisy   *)
(* channels (channel.py) and the retry loop (arq.py).                      *)
(*                                                                         *)
(* Three specifications share this module:                                 *)
(*   Spec        the retry loop of stop_and_wait, one step per attempt;    *)
(*   SpecCodec   the codecs as pure functions applied to bounded inputs;   *)
(*   SpecChannel calls of bsc_channel / gilbert_elliott_channel on the     *)
(*               process-wide random source of Python's random module.     *)
(***************************************************************************)
EXTENDS Integers, Sequences, FiniteSets

VARIABLES
    \* ---- stop_and_wait (arq.py) ----
    packets,        \* the list of packets handed to stop_and_wait
    codec,          \* which (encode, check_and_extract) pair was passed
    channel_tx,     \* the data channel callable: "noiseless" or "noisy"
    channel_ack,    \* the ACK channel callable: "noiseless" or "noisy"
    max_retries,    \* the retry budget
    pc,             \* position of stop_and_wait
    idx,            \* index of the packet of the for loop (0 before the first)
    retries,        \* local variable retries
    encoded,        \* local variable encoded
    success,        \* local variable success
    stats,          \* the stats dictionary
    tries,          \* history: data-channel calls made, per packet started
    flen,           \* history: len(encode(pkt)), per packet started
    accepts,        \* history: attempts of the current packet with ok = True
    base,           \* history: total_sent_bits when the current packet started
    last,           \* history: what the latest attempt of the packet saw
    \* ---- codecs as pure functions (coder.py) ----
    c_op,           \* which operation was applied last
    c_codec,        \* the codec it was applied with
    c_in,           \* the payload it started from
    c_err,          \* the positions inverted before verification
    c_rx,           \* the bit sequence given to the verifier
    c_out,          \* the verifier's result
    \* ---- channels (channel.py) ----
    rng,            \* state of the process-wide generator of module random
    stream,         \* the numbers each seed's generator produces, in order
    ch_pc,          \* which channel call of an attempt comes next
    ch_call         \* the latest channel call: its arguments and its result

arqVars   == <<packets, codec, channel_tx, channel_ack, max_retries, pc, idx,
               retries, encoded, success, stats, tries, flen, accepts, base,
               last>>
codecVars == <<c_op, c_codec, c_in, c_err, c_rx, c_out>>
chanVars  == <<rng, stream, ch_pc, ch_call>>
vars      == <<arqVars, codecVars, chanVars>>

-----------------------------------------------------------------------------
(* Bounds of the model *)

\* longest payload given to a codec in SpecCodec
MaxLen == 9
\* longest raw bit sequence given to a verifier in SpecCodec
MaxRx == 8
\* a noisy data channel flips bits among the first NoiseSpan bits of a frame
NoiseSpan == 2
\* longest bitstream cut into packets for stop_and_wait
MaxBits == 2
\* largest payload_size given to packetize
MaxPayload == 2
\* largest retry budget given to stop_and_wait
MaxRetries == 2
\* longest bit sequence given to a channel function in SpecChannel
MaxChanBits == 2
\* explicit seeds given to a channel function are 1..MaxSeed
MaxSeed == 1
\* longest payload whose parity frame is corrupted in SpecCodec
MaxParity == 4

-----------------------------------------------------------------------------
(* Bit sequences *)

Bit == {0, 1}

BitSeqs(lo, hi) == UNION {[1..k -> Bit] : k \in lo..hi}

Xor(a, b) == (a + b) % 2

RECURSIVE Sum(_)
Sum(s) == IF s = <<>> THEN 0 ELSE Head(s) + Sum(Tail(s))

\* s[:-k] and s[-k:] of Python, for 0 < k
DropLast(s, k) == IF Len(s) <= k THEN <<>> ELSE SubSeq(s, 1, Len(s) - k)
TakeLast(s, k) == IF Len(s) <= k THEN s ELSE SubSeq(s, Len(s) - k + 1, Len(s))

\* [0] * n
Zeros(n) == [i \in 1..n |-> 0]

\* the bits of s with those at the positions in e inverted
Flip(s, e) == [i \in 1..Len(s) |-> IF i \in e THEN 1 - s[i] ELSE s[i]]

-----------------------------------------------------------------------------
(* utils.py *)

\* value of a group of at most 8 bits, first bit most significant
RECURSIVE BitsValue(_)
BitsValue(g) == IF g = <<>> THEN 0
                ELSE 2 * BitsValue(SubSeq(g, 1, Len(g) - 1)) + g[Len(g)]

RECURSIVE Pow2(_)
Pow2(n) == IF n = 0 THEN 1 ELSE 2 * Pow2(n - 1)

\* chunk(lst, n): lst[i:i+n] for i = 0, n, 2n, ...
chunk(lst, n) ==
    [j \in 1..((Len(lst) + n - 1) \div n) |->
        SubSeq(lst, (j - 1) * n + 1,
               IF j * n <= Len(lst) THEN j * n ELSE Len(lst))]

\* variant: the last incomplete byte is appended without the left shift
bits_to_bytes_NoShift(bits) ==
    [j \in 1..((Len(bits) + 7) \div 8) |-> BitsValue(chunk(bits, 8)[j])]

\* bits_to_bytes: 8 bits per byte, MSB first; a last incomplete byte is
\* shifted left by 8 - rem.  A byte is an integer 0..255.
bits_to_bytes(bits) ==
    [j \in 1..((Len(bits) + 7) \div 8) |->
        LET g == chunk(bits, 8)[j]
        IN  BitsValue(g) * Pow2(8 - Len(g))]

\* bytes_to_bits: (byte >> i) & 1 for i = 7..0, byte after byte
bytes_to_bits(data) ==
    [k \in 1..(8 * Len(data)) |->
        LET byte == data[((k - 1) \div 8) + 1]
            i    == 7 - ((k - 1) % 8)
        IN  (byte \div Pow2(i)) % 2]

-----------------------------------------------------------------------------
(* coder.py *)

\* What a verifier call produces: a returned pair (ok, data), or an
\* exception that propagates to the caller.
Returned(ok, data) == [raised |-> FALSE, ok |-> ok, data |-> data]
Raised == [raised |-> TRUE, ok |-> FALSE, data |-> <<>>]

parity_encode(data_bits) == data_bits \o <<Sum(data_bits) % 2>>

\* variant: the parity bit is dropped without being added to the sum
parity_check_DataOnly(rx_bits) ==
    IF rx_bits = <<>> THEN Raised
    ELSE LET data == SubSeq(rx_bits, 1, Len(rx_bits) - 1)
         IN  Returned(Sum(data) % 2 = 0, data)

\* rx_bits[-1] raises IndexError on the empty list
parity_check(rx_bits) ==
    IF rx_bits = <<>> THEN Raised
    ELSE LET data == SubSeq(rx_bits, 1, Len(rx_bits) - 1)
             p    == rx_bits[Len(rx_bits)]
         IN  Returned((Sum(data) + p) % 2 = 0, data)

\* nibble is [d1,d2,d3,d4]
hamming74_encode(nibble) ==
    LET d1 == nibble[1]
        d2 == nibble[2]
        d3 == nibble[3]
        d4 == nibble[4]
        p1 == Xor(Xor(d1, d2), d4)
        p2 == Xor(Xor(d1, d3), d4)
        p3 == Xor(Xor(d2, d3), d4)
    IN  <<p1, p2, d1, p3, d2, d3, d4>>

RECURSIVE Concat(_)
Concat(ss) == IF ss = <<>> THEN <<>> ELSE Head(ss) \o Concat(Tail(ss))

\* every chunk of 4 bits, the last one padded with zeros, encoded in turn
hamming74_encode_bits(data_bits) ==
    LET nibbles == chunk(data_bits, 4)
    IN  Concat([j \in 1..Len(nibbles) |->
                  hamming74_encode(nibbles[j] \o Zeros(4 - Len(nibbles[j])))])

Syndrome(w) ==
    LET s1 == Xor(Xor(Xor(w[1], w[3]), w[5]), w[7])
        s2 == Xor(Xor(Xor(w[2], w[3]), w[6]), w[7])
        s3 == Xor(Xor(Xor(w[4], w[5]), w[6]), w[7])
    IN  4 * s3 + 2 * s2 + s1

\* variant: the syndrome taken as a 0-based index, corrected[syndrome] ^= 1
hamming74_check_and_extract_Index0(rx7) ==
    IF Len(rx7) # 7 THEN Raised
    ELSE LET syndrome  == Syndrome(rx7)
             corrected == IF syndrome # 0 /\ 1 <= syndrome /\ syndrome <= 7
                          THEN Flip(rx7, {syndrome + 1})
                          ELSE rx7
             ok        == Syndrome(corrected) = 0
             data      == <<corrected[3], corrected[5], corrected[6], corrected[7]>>
         IN  Returned(ok, data)

\* variant: the word is rechecked without the syndrome-directed inversion
hamming74_check_and_extract_NoFlip(rx7) ==
    IF Len(rx7) # 7 THEN Raised
    ELSE Returned(Syndrome(rx7) = 0, <<rx7[3], rx7[5], rx7[6], rx7[7]>>)

\* p1,p2,d1,p3,d2,d3,d4 = rx7 raises ValueError unless len(rx7) = 7
hamming74_check_and_extract(rx7) ==
    IF Len(rx7) # 7 THEN Raised
    ELSE LET syndrome  == Syndrome(rx7)
             corrected == IF syndrome # 0 /\ 1 <= syndrome /\ syndrome <= 7
                          THEN Flip(rx7, {syndrome})
                          ELSE rx7
             ok        == Syndrome(corrected) = 0
             data      == <<corrected[3], corrected[5], corrected[6], corrected[7]>>
         IN  Returned(ok, data)

\* A 32-bit unsigned integer is kept as its two 16-bit halves, so that no
\* intermediate value leaves the range of the checker's integers.
Word32(hi, lo) == [hi |-> hi, lo |-> lo]

\* a ^ b on non-negative integers
RECURSIVE BitXor(_, _)
BitXor(a, b) ==
    IF a = 0 THEN b
    ELSE IF b = 0 THEN a
    ELSE 2 * BitXor(a \div 2, b \div 2) + Xor(a % 2, b % 2)

Xor32(a, b) == Word32(BitXor(a.hi, b.hi), BitXor(a.lo, b.lo))
Shr32(a) == Word32(a.hi \div 2, (a.lo \div 2) + 32768 * (a.hi % 2))

\* 0xFFFFFFFF
Ones32 == Word32(65535, 65535)
\* 0xEDB88320, the reflected CRC-32 polynomial
Poly32 == Word32(60856, 33568)

\* one bit step of the reflected CRC: crc = (crc >> 1) ^ (poly if crc & 1)
CrcStep(crc) == IF crc.lo % 2 = 1 THEN Xor32(Shr32(crc), Poly32) ELSE Shr32(crc)

RECURSIVE CrcSteps(_, _)
CrcSteps(crc, n) == IF n = 0 THEN crc ELSE CrcSteps(CrcStep(crc), n - 1)

\* the 256 values of eight bit steps applied to a byte
CrcTable == [n \in 0..255 |-> CrcSteps(Word32(0, n), 8)]

\* crc >> 8
Shr32by8(a) == Word32(a.hi \div 256, (a.lo \div 256) + 256 * (a.hi % 256))

\* crc ^= byte, then 8 bit steps: table[(crc ^ byte) & 0xFF] ^ (crc >> 8)
CrcByte(crc, byte) ==
    Xor32(CrcTable[BitXor(crc.lo % 256, byte)], Shr32by8(crc))

RECURSIVE CrcBytes(_, _)
CrcBytes(crc, data) ==
    IF data = <<>> THEN crc ELSE CrcBytes(CrcByte(crc, Head(data)), Tail(data))

\* binascii.crc32(data) & 0xffffffff
crc32(data_bytes) == Xor32(CrcBytes(Ones32, data_bytes), Ones32)

\* crc.to_bytes(4, 'big')
to_bytes4(w) == <<w.hi \div 256, w.hi % 256, w.lo \div 256, w.lo % 256>>
\* int.from_bytes(b, 'big') of 4 bytes
from_bytes4(b) == Word32(256 * b[1] + b[2], 256 * b[3] + b[4])

crc32_append(data_bits) ==
    LET data_bytes == bits_to_bytes(data_bits)
        crc        == crc32(data_bytes)
        crc_bytes  == to_bytes4(crc)
    IN  data_bits \o bytes_to_bits(crc_bytes)

crc32_check(rx_bits) ==
    IF Len(rx_bits) < 32 THEN Returned(FALSE, <<>>)
    ELSE LET data_bits    == DropLast(rx_bits, 32)
             crc_bits     == TakeLast(rx_bits, 32)
             data_bytes   == bits_to_bytes(data_bits)
             crc_expected == from_bytes4(bits_to_bytes(crc_bits))
             crc_calc     == crc32(data_bytes)
         IN  Returned(crc_calc = crc_expected, data_bits)

\* the (encode, check_and_extract) pairs passed to stop_and_wait
Codecs == {"parity", "hamming74", "crc32"}

Encode(c, p) ==
    CASE c = "parity"    -> parity_encode(p)
      [] c = "hamming74" -> hamming74_encode_bits(p)
      [] c = "crc32"     -> crc32_append(p)

CheckAndExtract(c, rx) ==
    CASE c = "parity"    -> parity_check(rx)
      [] c = "hamming74" -> hamming74_check_and_extract(rx)
      [] c = "crc32"     -> crc32_check(rx)

-----------------------------------------------------------------------------
(* generator.py *)

\* packetize: chunks of payload_size bits, the last padded with zeros
packetize(bits, payload_size) ==
    LET ps == chunk(bits, payload_size)
    IN  [j \in 1..Len(ps) |-> ps[j] \o Zeros(payload_size - Len(ps[j]))]

-----------------------------------------------------------------------------
(* arq.py: stop_and_wait *)

\* The channel callables.  A noiseless channel returns its input.  A noisy
\* data channel returns its input with any set of bits inverted (bsc_channel
\* with 0 < p_flip < 1 can produce each of them); a noisy ACK channel
\* delivers the ACK, its inverse, or nothing.
ChannelKinds == {"noiseless", "noisy"}

Min(a, b) == IF a <= b THEN a ELSE b

TxErrors(kind, frame) ==
    IF kind = "noiseless" THEN {{}}
    ELSE SUBSET (1..Min(NoiseSpan, Len(frame)))

AckEffects(kind) ==
    IF kind = "noiseless" THEN {"same"} ELSE {"same", "flip", "lost"}

AckDelivered(effect, ack) ==
    CASE effect = "same" -> ack
      [] effect = "flip" -> <<1 - ack[1]>>
      [] effect = "lost" -> <<>>

\* variants of the loop test: one pass more, one pass less
LoopContinues_OneMore(r, m) == r <= m + 1
LoopContinues_Strict(r, m) == r < m
\* variant: a frame is never sent a second time
LoopContinues_NoRetry(r, m) == r = 0 /\ r <= m

\* while retries <= max_retries
LoopContinues(r, m) == r <= m

\* variant: counts transmissions, not bits
CountSent_Frames(total, frame) == total + 1

\* stats['total_sent_bits'] += len(encoded)
CountSent(total, frame) == total + Len(frame)

\* variant: any delivered ACK ends the loop
AckAccepted_NonEmpty(ack_rx) == ack_rx # <<>>

\* if ack_rx and ack_rx[0] == 1
AckAccepted(ack_rx) == ack_rx # <<>> /\ ack_rx[1] = 1

\* variant: the verifier's verdict is not consulted
Undetected_AnyMismatch(ok, data, pkt) == data # pkt

\* variant: a mismatch is counted on frames the verifier rejected
Undetected_Rejected(ok, data, pkt) == ~ok /\ data # pkt

\* if ok and data != pkt
Undetected(ok, data, pkt) == ok /\ data # pkt

NoAttempt == [made |-> FALSE, ok |-> FALSE, differs |-> FALSE,
              ack |-> <<>>, ack_rx |-> <<>>, sent |-> <<>>]

\* variant: channel_tx(encoded), the channel writing into the sender's list
SenderFrame_Shared(frame, rx) == rx

\* channel_tx(deepcopy(encoded)): a channel that writes into the list it is
\* given turns the copy into rx; the sender's list is another object
SenderFrame(frame, rx) == frame

\* variant: the number of attempts is recorded, not the number of retries
Recorded_Attempts(st, r) ==
    [st EXCEPT !.retries_per_packet = Append(st.retries_per_packet, r + 1)]

\* stats['retries_per_packet'].append(retries), r being the final count
Recorded(st, r) ==
    [st EXCEPT !.retries_per_packet = Append(st.retries_per_packet, r)]

\* max_retries=5 of simulate.py
SimRetries == 5

\* The retry budgets explored: 0..MaxRetries on every link, and the budget
\* of simulate.py on the noiseless link, where a packet takes one attempt.
RetryBudgets(tx, ack) ==
    (0..MaxRetries) \cup
    (IF tx = "noiseless" /\ ack = "noiseless" THEN {SimRetries} ELSE {})

ArqInit ==
    /\ \E bits \in BitSeqs(1, MaxBits), payload_size \in 1..MaxPayload :
          packets = packetize(bits, payload_size)
    /\ codec \in Codecs
    /\ channel_tx \in ChannelKinds
    /\ channel_ack \in ChannelKinds
    /\ max_retries \in RetryBudgets(channel_tx, channel_ack)
    /\ pc = "for"
    /\ idx = 0
    /\ retries = 0
    /\ encoded = <<>>
    /\ success = FALSE
    /\ stats = [total_sent_bits |-> 0, payload_bits |-> 0,
                retries_per_packet |-> <<>>, undetected_errors |-> 0]
    /\ tries = <<>>
    /\ flen = <<>>
    /\ accepts = 0
    /\ base = 0
    /\ last = NoAttempt

\* for pkt in packets: lines 110-113, up to the first test of the while loop
NextPacket ==
    /\ pc = "for"
    /\ idx < Len(packets)
    /\ idx' = idx + 1
    /\ retries' = 0
    /\ encoded' = Encode(codec, packets[idx + 1])
    /\ success' = FALSE
    /\ LET st == [stats EXCEPT !.payload_bits = @ + Len(packets[idx + 1])]
       IN  IF LoopContinues(0, max_retries)
           THEN pc' = "while" /\ stats' = st
           ELSE pc' = "for" /\ stats' = Recorded(st, 0)
    /\ tries' = Append(tries, 0)
    /\ flen' = Append(flen, Len(encoded'))
    /\ accepts' = 0
    /\ base' = stats.total_sent_bits
    /\ last' = NoAttempt
    /\ UNCHANGED <<packets, codec, channel_tx, channel_ack, max_retries>>

\* one pass of the while loop, lines 114-125, with what follows it when the
\* loop ends (line 126); the channels work on deep copies, so encoded stays.
\* rx = channel_tx(deepcopy(encoded)) is Flip(encoded, e), and res is
\* check_and_extract(rx), computed once per received frame.
Attempt ==
    /\ pc = "while"
    /\ LoopContinues(retries, max_retries)
    /\ \E e \in TxErrors(channel_tx, encoded) :
       \E res \in {CheckAndExtract(codec, Flip(encoded, e))} :
       \E a \in AckEffects(channel_ack) :
         LET pkt    == packets[idx]
             total  == CountSent(stats.total_sent_bits, encoded)
             ack    == <<IF res.ok THEN 1 ELSE 0>>
             ack_rx == AckDelivered(a, ack)
             st1    == [stats EXCEPT !.total_sent_bits = total]
             st2    == IF Undetected(res.ok, res.data, pkt)
                       THEN [st1 EXCEPT !.undetected_errors = @ + 1]
                       ELSE st1
         IN  /\ tries' = [tries EXCEPT ![idx] = @ + 1]
             /\ encoded' = SenderFrame(encoded, Flip(encoded, e))
             /\ IF res.raised
                THEN /\ pc' = "raised"
                     /\ stats' = st1
                     /\ UNCHANGED <<retries, success, accepts, last>>
                ELSE /\ accepts' = accepts + (IF res.ok THEN 1 ELSE 0)
                     /\ last' = [made |-> TRUE, ok |-> res.ok,
                                 differs |-> res.data # pkt,
                                 ack |-> ack, ack_rx |-> ack_rx,
                                 sent |-> encoded]
                     /\ IF AckAccepted(ack_rx)
                        THEN /\ success' = TRUE
                             /\ retries' = retries
                             /\ stats' = Recorded(st2, retries)
                             /\ pc' = "for"
                        ELSE /\ success' = success
                             /\ retries' = retries + 1
                             /\ IF LoopContinues(retries + 1, max_retries)
                                THEN pc' = "while" /\ stats' = st1
                                ELSE pc' = "for" /\ stats' = Recorded(st1, retries + 1)
    /\ UNCHANGED <<packets, codec, channel_tx, channel_ack, max_retries, idx,
                   flen, base>>

\* return stats
Return ==
    /\ pc = "for"
    /\ idx = Len(packets)
    /\ pc' = "done"
    /\ UNCHANGED <<packets, codec, channel_tx, channel_ack, max_retries, idx,
                   retries, encoded, success, stats, tries, flen, accepts,
                   base, last>>

-----------------------------------------------------------------------------
(* The codecs applied to bounded inputs *)

NoResult == [raised |-> FALSE, ok |-> FALSE, data |-> <<>>]

CodecInit ==
    /\ c_op = "none"
    /\ c_codec = "parity"
    /\ c_in = <<>>
    /\ c_err = {}
    /\ c_rx = <<>>
    /\ c_out = NoResult

\* check_and_extract(encode(p)): the frame reaches the verifier unmodified
RoundTrip ==
    \E c \in Codecs, p \in BitSeqs(0, MaxLen) :
        /\ c_op = "none"
        /\ c_op' = "roundtrip"
        /\ c_codec' = c
        /\ c_in' = p
        /\ c_err' = {}
        /\ c_rx' = Encode(c, p)
        /\ c_out' = CheckAndExtract(c, Encode(c, p))

\* check_and_extract(rx) for an arbitrary received bit sequence
VerifyRaw ==
    \E c \in Codecs, rx \in BitSeqs(0, MaxRx) :
        /\ c_op = "none"
        /\ c_op' = "verify"
        /\ c_codec' = c
        /\ c_in' = <<>>
        /\ c_err' = {}
        /\ c_rx' = rx
        /\ c_out' = CheckAndExtract(c, rx)

\* hamming74_check_and_extract on hamming74_encode(nibble) with the bits at
\* the positions e inverted
HammingWord ==
    \E nibble \in [1..4 -> Bit], e \in SUBSET (1..7) :
        /\ c_op = "none"
        /\ c_op' = "word"
        /\ c_codec' = "hamming74"
        /\ c_in' = nibble
        /\ c_err' = e
        /\ c_rx' = Flip(hamming74_encode(nibble), e)
        /\ c_out' = hamming74_check_and_extract(Flip(hamming74_encode(nibble), e))

\* parity_check on parity_encode(p) with the bits at the positions e inverted
ParityWord ==
    \E p \in BitSeqs(0, MaxParity) :
    \E e \in SUBSET (1..(Len(p) + 1)) :
        /\ c_op = "none"
        /\ c_op' = "parity"
        /\ c_codec' = "parity"
        /\ c_in' = p
        /\ c_err' = e
        /\ c_rx' = Flip(parity_encode(p), e)
        /\ c_out' = parity_check(Flip(parity_encode(p), e))

\* bytes_to_bits(bits_to_bytes(b)): c_rx holds the bytes, c_out.data the bits
BitsBytes ==
    \E b \in BitSeqs(0, MaxLen) :
        /\ c_op = "none"
        /\ c_op' = "bytes"
        /\ c_codec' = c_codec
        /\ c_in' = b
        /\ c_err' = {}
        /\ c_rx' = bits_to_bytes(b)
        /\ c_out' = [NoResult EXCEPT !.data = bytes_to_bits(bits_to_bytes(b))]

-----------------------------------------------------------------------------
(* channel.py *)

\* Probabilities are counted in halves: 0, 1/2 and 1.  random.random()
\* returns a number of [0, 1): below 1/2 (level 0) or not (level 1), so
\* that "random.random() < p" is "level < p".
Probs == {0, 1, 2}
Levels == {0, 1}

\* The seed argument: <<>> is None, <<s>> is the integer s.
SeedArgs == {<<>>} \cup {<<s>> : s \in 1..MaxSeed}

\* if seed is not None: random.seed(seed).  The generator of module random
\* is one per process; seed 0 stands for its seeding at start-up.
Seeded(r, seed) == IF seed = <<>> THEN r ELSE [seed |-> seed[1], pos |-> 0]

\* the n numbers the generator in state r returns next: any, but those it
\* has returned before at the same place of the same seed's sequence
NextDraws(r, n) ==
    {d \in [1..n -> Levels] :
        \A i \in 1..n :
            <<r.seed, r.pos + i - 1>> \in DOMAIN stream
                => d[i] = stream[<<r.seed, r.pos + i - 1>>]}

Drawn(r, d) ==
    LET new == {<<r.seed, r.pos + i - 1>> : i \in 1..Len(d)}
    IN  [x \in (DOMAIN stream) \cup new |->
            IF x \in DOMAIN stream THEN stream[x] ELSE d[x[2] - r.pos + 1]]

Advanced(r, n) == [seed |-> r.seed, pos |-> r.pos + n]

\* [b ^ (1 if random.random() < p_flip else 0) for b in bits]
bsc_channel(bits, p_flip, d) ==
    [i \in 1..Len(bits) |-> Xor(bits[i], IF d[i] < p_flip THEN 1 ELSE 0)]

\* the error probability picked for a bit: by the state the bit is met in
GEErrP(pre, post, err_good, err_bad) ==
    IF pre = "G" THEN err_good ELSE err_bad

\* the state after the transition attempt of one bit, t being its draw
GENextState(pre, p_gb, p_bg, t) ==
    IF pre = "G" THEN (IF t < p_gb THEN "B" ELSE "G")
                 ELSE (IF t < p_bg THEN "G" ELSE "B")

\* the loop of gilbert_elliott_channel from bit i on, in state `state`:
\* per bit, the state before and after the transition attempt, the error
\* probability used and the output bit.  Bit i takes draws 2i-1 and 2i.
RECURSIVE GEBits(_, _, _, _, _, _, _, _)
GEBits(bits, p_gb, p_bg, err_good, err_bad, d, i, state) ==
    IF i > Len(bits) THEN <<>>
    ELSE LET post  == GENextState(state, p_gb, p_bg, d[2 * i - 1])
             err_p == GEErrP(state, post, err_good, err_bad)
             out   == Xor(bits[i], IF d[2 * i] < err_p THEN 1 ELSE 0)
         IN  <<[pre |-> state, post |-> post, err_p |-> err_p, out |-> out]>>
             \o GEBits(bits, p_gb, p_bg, err_good, err_bad, d, i + 1, post)

gilbert_elliott_channel(bits, p_gb, p_bg, err_good, err_bad, d) ==
    LET t == GEBits(bits, p_gb, p_bg, err_good, err_bad, d, 1, "G")
    IN  [i \in 1..Len(bits) |-> t[i].out]

NoCall == [kind |-> "none", role |-> "none", bits |-> <<>>, seed |-> <<>>,
           p |-> <<>>, before |-> [seed |-> 0, pos |-> 0], out |-> <<>>,
           trace |-> <<>>]

ChanInit ==
    /\ rng = [seed |-> 0, pos |-> 0]
    /\ stream = <<>>
    /\ ch_pc = "data"
    /\ ch_call = NoCall

\* a call of bsc_channel(bits, p_flip, seed) in the role `role`
BscCall(role, bits, p_flip, seed) ==
    LET start == Seeded(rng, seed)
    IN  \E d \in NextDraws(start, Len(bits)) :
           /\ rng' = Advanced(start, Len(bits))
           /\ stream' = Drawn(start, d)
           /\ ch_call' = [kind |-> "bsc", role |-> role, bits |-> bits,
                          seed |-> seed, p |-> <<p_flip>>, before |-> rng,
                          out |-> bsc_channel(bits, p_flip, d),
                          trace |-> <<>>]

\* a call of gilbert_elliott_channel(bits, p_gb, p_bg, err_good, err_bad, seed)
GECall(role, bits, p_gb, p_bg, err_good, err_bad, seed) ==
    LET start == Seeded(rng, seed)
    IN  \E d \in NextDraws(start, 2 * Len(bits)) :
           /\ rng' = Advanced(start, 2 * Len(bits))
           /\ stream' = Drawn(start, d)
           /\ ch_call' = [kind |-> "ge", role |-> role, bits |-> bits,
                          seed |-> seed,
                          p |-> <<p_gb, p_bg, err_good, err_bad>>,
                          before |-> rng,
                          out |-> gilbert_elliott_channel(bits, p_gb, p_bg,
                                                          err_good, err_bad, d),
                          trace |-> GEBits(bits, p_gb, p_bg, err_good,
                                           err_bad, d, 1, "G")]

\* rx = channel_tx(frame), the data channel being bsc_channel
DataCallBsc ==
    /\ ch_pc = "data"
    /\ ch_pc' = "ack"
    /\ \E bits \in BitSeqs(0, MaxChanBits), p_flip \in Probs, seed \in SeedArgs :
          BscCall("data", bits, p_flip, seed)

\* rx = channel_tx(frame), the data channel being gilbert_elliott_channel
DataCallGE ==
    /\ ch_pc = "data"
    /\ ch_pc' = "ack"
    /\ \E bits \in BitSeqs(0, MaxChanBits), p_gb \in Probs, p_bg \in Probs,
          err_good \in Probs, err_bad \in Probs, seed \in SeedArgs :
          GECall("data", bits, p_gb, p_bg, err_good, err_bad, seed)

\* ack_rx = channel_ack(ack), the ACK channel being bsc_channel
AckCall ==
    /\ ch_pc = "ack"
    /\ ch_pc' = "done"
    /\ \E ack \in [1..1 -> Bit], p_flip \in Probs, seed \in SeedArgs :
          BscCall("ack", ack, p_flip, seed)

-----------------------------------------------------------------------------
(* Specifications *)

ChanIdle ==
    /\ rng = [seed |-> 0, pos |-> 0]
    /\ stream = <<>>
    /\ ch_pc = "off"
    /\ ch_call = NoCall

ArqIdle ==
    /\ packets = <<>>
    /\ codec = "parity"
    /\ channel_tx = "noiseless"
    /\ channel_ack = "noiseless"
    /\ max_retries = 0
    /\ pc = "off"
    /\ idx = 0
    /\ retries = 0
    /\ encoded = <<>>
    /\ success = FALSE
    /\ stats = [total_sent_bits |-> 0, payload_bits |-> 0,
                retries_per_packet |-> <<>>, undetected_errors |-> 0]
    /\ tries = <<>>
    /\ flen = <<>>
    /\ accepts = 0
    /\ base = 0
    /\ last = NoAttempt

Init == ArqInit /\ CodecInit /\ ChanIdle

Next ==
    \/ NextPacket /\ UNCHANGED <<codecVars, chanVars>>
    \/ Attempt /\ UNCHANGED <<codecVars, chanVars>>
    \/ Return /\ UNCHANGED <<codecVars, chanVars>>

Spec == Init /\ [][Next]_vars

InitCodec == ArqIdle /\ CodecInit /\ ChanIdle

NextCodec ==
    \/ RoundTrip /\ UNCHANGED <<arqVars, chanVars>>
    \/ VerifyRaw /\ UNCHANGED <<arqVars, chanVars>>
    \/ HammingWord /\ UNCHANGED <<arqVars, chanVars>>
    \/ ParityWord /\ UNCHANGED <<arqVars, chanVars>>
    \/ BitsBytes /\ UNCHANGED <<arqVars, chanVars>>

SpecCodec == InitCodec /\ [][NextCodec]_vars

InitChannel == ArqIdle /\ CodecInit /\ ChanInit

NextChannel ==
    \/ DataCallBsc /\ UNCHANGED <<arqVars, codecVars>>
    \/ DataCallGE /\ UNCHANGED <<arqVars, codecVars>>
    \/ AckCall /\ UNCHANGED <<arqVars, codecVars>>

SpecChannel == InitChannel /\ [][NextChannel]_vars

-----------------------------------------------------------------------------
(* Properties *)

RECURSIVE SumTo(_, _)
SumTo(f, n) == IF n = 0 THEN 0 ELSE f[n] + SumTo(f, n - 1)

\* the packet of the for loop has been dealt with and recorded
PacketRecorded ==
    /\ pc \in {"for", "done"}
    /\ idx >= 1
    /\ Len(stats.retries_per_packet) = idx

\* C1: for every packet, the data channel is invoked at most
\* max_retries + 1 times, whatever the codec and the channels do.
C1_AtMostBudgetPlusOne ==
    \A k \in 1..Len(tries) : tries[k] <= max_retries + 1

C1_Witness ==
    /\ max_retries >= 1
    /\ idx >= 1
    /\ tries[idx] = max_retries + 1
    /\ pc = "for"

\* C2: when the verifier reported ok = False on every attempt of a packet
\* and the ACK channel is noiseless, the packet took exactly
\* max_retries + 1 attempts, its recorded retry count is max_retries + 1,
\* and total_sent_bits grew by (max_retries + 1) * len(frame).
C2_ExhaustedWhenAlwaysRejected ==
    (PacketRecorded /\ channel_ack = "noiseless" /\ accepts = 0)
        => /\ tries[idx] = max_retries + 1
           /\ stats.retries_per_packet[idx] = max_retries + 1
           /\ stats.total_sent_bits = base + (max_retries + 1) * Len(encoded)

C2_Witness ==
    /\ PacketRecorded
    /\ channel_ack = "noiseless"
    /\ accepts = 0
    /\ max_retries = 2
    /\ stats.retries_per_packet[idx] = 3
    /\ stats.total_sent_bits = base + 3 * Len(encoded)

\* C3: with a noiseless data channel, a noiseless ACK channel and
\* max_retries = 5, stop_and_wait returns, every recorded retry count is 0
\* and undetected_errors is 0, for each of the three codecs and any payload.
C3_NoiselessNoRetryNoError ==
    (channel_tx = "noiseless" /\ channel_ack = "noiseless"
        /\ max_retries = SimRetries)
        => /\ pc # "raised"
           /\ \A k \in 1..Len(stats.retries_per_packet) :
                  stats.retries_per_packet[k] = 0
           /\ stats.undetected_errors = 0

\* C4: undetected_errors changes only by one, only on the attempt that ends
\* the packet's loop with a received ACK of 1, and only when on that attempt
\* the verifier returned ok = True with data different from the packet; so
\* it never exceeds the number of packets recorded so far.
C4_UndetectedOnlyOnAckedMismatch ==
    /\ [](stats.undetected_errors <= Len(stats.retries_per_packet))
    /\ [][stats'.undetected_errors # stats.undetected_errors
            => /\ stats'.undetected_errors = stats.undetected_errors + 1
               /\ Len(stats'.retries_per_packet)
                    = Len(stats.retries_per_packet) + 1
               /\ pc' = "for"
               /\ last'.ack_rx # <<>>
               /\ last'.ack_rx[1] = 1
               /\ last'.ok
               /\ last'.differs]_vars

C4_Witness ==
    /\ PacketRecorded
    /\ codec = "parity"
    /\ stats.undetected_errors >= 1
    /\ last.ok
    /\ last.differs
    /\ last.ack_rx = <<1>>

\* C5: total_sent_bits is the sum of len(encode(packet)) over every
\* data-channel attempt made so far, and payload_bits is the sum of
\* len(packet) over the packets started so far, each counted once.
C5_SentAndPayloadTotals ==
    /\ Len(tries) = idx
    /\ Len(flen) = idx
    /\ stats.total_sent_bits
         = SumTo([k \in 1..idx |-> tries[k] * flen[k]], idx)
    /\ stats.payload_bits
         = SumTo([k \in 1..idx |-> Len(packets[k])], idx)

C5_Witness ==
    /\ idx >= 2
    /\ tries[1] >= 2
    /\ tries[2] >= 2
    /\ stats.payload_bits = Len(packets[1]) + Len(packets[2])

\* C6: for every payload p and every codec, the verifier applied to the
\* unmodified encoded frame returns (True, p).
C6_RoundTrip ==
    c_op = "roundtrip" => c_out = Returned(TRUE, c_in)

\* C7: in gilbert_elliott_channel the error probability used for a bit is
\* the one of the state after that bit's transition attempt: err_bad when
\* the channel is then in B, err_good when it is then in G.
C7_ErrorOfResultingState ==
    ch_call.kind = "ge"
        => \A i \in 1..Len(ch_call.trace) :
               ch_call.trace[i].err_p =
                   (IF ch_call.trace[i].post = "B" THEN ch_call.p[4]
                                                   ELSE ch_call.p[3])

\* C8: a channel call, seeded or not, leaves unchanged the random source
\* that any other channel call draws from.
C8_OwnRandomSource ==
    [][ch_pc' # ch_pc => rng' = rng]_vars

\* what a verifier must answer on a frame of malformed length
Malformed(c, rx) ==
    \/ c = "crc32" /\ Len(rx) < 32
    \/ c = "hamming74" /\ Len(rx) % 7 # 0

\* C9: no verifier raises on any received bit sequence, and on a frame of
\* malformed length it returns ok = False with an empty recovered sequence.
C9_VerifierNeverRaises ==
    c_op = "verify"
        => /\ ~c_out.raised
           /\ Malformed(c_codec, c_rx) => c_out = Returned(FALSE, <<>>)

\* C10: one inverted bit, at any of the 7 positions of
\* hamming74_encode(nibble), is corrected: ok = True and the nibble is
\* recovered.
C10_SingleErrorCorrected ==
    (c_op = "word" /\ Cardinality(c_err) = 1)
        => c_out = Returned(TRUE, c_in)

C10_Witness ==
    /\ c_op = "word"
    /\ c_in = <<1, 0, 1, 1>>
    /\ c_err = {7}
    /\ c_rx = <<0, 1, 1, 0, 0, 1, 0>>
    /\ c_out = Returned(TRUE, <<1, 0, 1, 1>>)

\* C11: inverting an odd number of bits of parity_encode(payload), at any
\* positions, makes parity_check return ok = False; inverting exactly two
\* makes it return ok = True, with data different from the payload whenever
\* one of the two is a data bit.
C11_ParityOddDetectedTwoMissed ==
    c_op = "parity"
        => /\ ~c_out.raised
           /\ Cardinality(c_err) % 2 = 1 => ~c_out.ok
           /\ Cardinality(c_err) = 2
                => /\ c_out.ok
                   /\ (\E i \in c_err : i <= Len(c_in)) => c_out.data # c_in

C11_Witness ==
    /\ c_op = "parity"
    /\ c_in = <<1, 0, 1>>
    /\ c_err = {2, 4}
    /\ c_rx = <<1, 1, 1, 1>>
    /\ c_out = Returned(TRUE, <<1, 1, 1>>)

\* C12: bytes_to_bits(bits_to_bytes(b)) is b when len(b) is a multiple of 8
\* and otherwise b followed by zeros up to the next multiple of 8;
\* bits_to_bytes(b) has ceil(len(b) / 8) bytes.
C12_BitsBytesRoundTrip ==
    c_op = "bytes"
        => /\ Len(c_rx) = (Len(c_in) + 7) \div 8
           /\ c_out.data = c_in \o Zeros((8 - (Len(c_in) % 8)) % 8)

C12_Witness ==
    /\ c_op = "bytes"
    /\ c_in = <<1, 0, 0, 0, 0, 0, 0, 1, 1>>
    /\ c_rx = <<129, 128>>
    /\ c_out.data = <<1, 0, 0, 0, 0, 0, 0, 1, 1, 0, 0, 0, 0, 0, 0, 0>>

\* C13: with p_gb = 0 and p_bg = 0, gilbert_elliott_channel is in state G
\* at every bit, and for the same seed and the same input bits it returns
\* what bsc_channel with p_flip = err_good returns.
C13_GilbertElliottAsBsc ==
    [][(/\ ch_call.kind = "ge"
        /\ ch_call'.kind = "bsc"
        /\ ch_call.seed # <<>>
        /\ ch_call'.seed = ch_call.seed
        /\ ch_call'.bits = ch_call.bits
        /\ ch_call.p[1] = 0
        /\ ch_call.p[2] = 0
        /\ ch_call'.p[1] = ch_call.p[3])
          => /\ \A i \in 1..Len(ch_call.trace) :
                    ch_call.trace[i].pre = "G" /\ ch_call.trace[i].post = "G"
             /\ ch_call'.out = ch_call.out]_vars

\* C14: on every attempt the ACK sent is [1] exactly when the verifier
\* returned ok = True and [0] otherwise; the packet's loop ends as a success
\* exactly when the received ACK is non-empty with first element 1; in every
\* other case retries grows by one (so it equals the number of attempts made)
\* and the loop goes on exactly while retries <= max_retries.
C14_AckAndLoopExit ==
    (last.made /\ pc \in {"while", "for"})
        => LET acked == last.ack_rx # <<>> /\ last.ack_rx[1] = 1
           IN  /\ last.ack = (IF last.ok THEN <<1>> ELSE <<0>>)
               /\ success <=> acked
               /\ acked => (pc = "for" /\ retries = tries[idx] - 1)
               /\ ~acked => /\ retries = tries[idx]
                             /\ pc = "while" <=> retries <= max_retries

C14_Witness ==
    /\ pc = "while"
    /\ last.made
    /\ last.ack = <<0>>
    /\ last.ack_rx = <<>>
    /\ retries = 2
    /\ tries[idx] = 2

\* C15: encode is called once per packet, and the frame handed to the data
\* channel on every attempt of the packet is that encoded frame, even when
\* the channel writes into the sequence it is given; stop_and_wait never
\* changes the packets it was passed.
C15_FrameEncodedOnceAndKept ==
    /\ [](idx >= 1
            => /\ Len(flen) = idx
               /\ \A frame \in {Encode(codec, packets[idx])} :
                      /\ encoded = frame
                      /\ last.made => last.sent = frame)
    /\ [][packets' = packets]_vars

C15_Witness ==
    /\ codec = "parity"
    /\ channel_tx = "noisy"
    /\ idx >= 1
    /\ tries[idx] = 3
    /\ last.made
    /\ last.differs
    /\ last.sent = encoded
    /\ encoded = parity_encode(packets[idx])

\* C16: the retry count recorded for a packet is max_retries + 1 exactly
\* when no attempt of the packet received an ACK of 1; when an attempt was
\* acknowledged (it is then the last one), the recorded count is the number
\* of attempts before it and lies in 0..max_retries.
C16_RecordedCountTellsExhaustion ==
    PacketRecorded
        => LET r     == stats.retries_per_packet[idx]
               acked == last.ack_rx # <<>> /\ last.ack_rx[1] = 1
           IN  /\ last.made
               /\ (r = max_retries + 1) <=> ~acked
               /\ acked => (r = tries[idx] - 1 /\ 0 <= r /\ r <= max_retries)
               /\ ~acked => r = tries[idx]
               /\ \A k \in 1..idx :
                      /\ stats.retries_per_packet[k] \in {tries[k] - 1, tries[k]}
                      /\ stats.retries_per_packet[k] = tries[k]
                            => tries[k] = max_retries + 1

C16_Witness ==
    /\ PacketRecorded
    /\ max_retries = 2
    /\ last.ack_rx = <<1>>
    /\ tries[idx] = 3
    /\ stats.retries_per_packet[idx] = 2

\* C17: when the verifier accepted the frame but the ACK received is not 1,
\* retries is incremented and, while retries <= max_retries, the loop goes
\* on with the identical frame encode(packet), which carries no sequence
\* number; past the budget the packet is recorded with max_retries + 1,
\* however many of its attempts the receiver accepted.
C17_BlindRetransmission ==
    (pc \in {"while", "for"} /\ last.made /\ last.ok
        /\ ~(last.ack_rx # <<>> /\ last.ack_rx[1] = 1))
        => /\ ~success
           /\ accepts >= 1
           /\ retries >= 1
           /\ retries = tries[idx]
           /\ retries <= max_retries
                => /\ pc = "while"
                   /\ encoded = last.sent
                   /\ encoded = Encode(codec, packets[idx])
           /\ retries > max_retries
                => /\ PacketRecorded
                   /\ stats.retries_per_packet[idx] = max_retries + 1

C17_Witness ==
    /\ PacketRecorded
    /\ max_retries = 2
    /\ ~success
    /\ last.ok
    /\ accepts = 3
    /\ tries[idx] = 3
    /\ stats.retries_per_packet[idx] = 3

\* C18: when the verifier rejected the frame (NACK [0] sent) but the ACK
\* received has first element 1, that attempt ends the packet: success is
\* set, the current retry count is recorded unchanged, and
\* undetected_errors is left as it was, whatever the recovered data.
C18_FalseAckEndsPacket ==
    [][(/\ pc = "while"
        /\ pc' # "raised"
        /\ tries' # tries
        /\ ~last'.ok
        /\ last'.ack = <<0>>
        /\ last'.ack_rx # <<>>
        /\ last'.ack_rx[1] = 1)
          => /\ success'
             /\ pc' = "for"
             /\ retries' = retries
             /\ stats'.retries_per_packet
                  = Append(stats.retries_per_packet, retries)
             /\ stats'.undetected_errors = stats.undetected_errors]_vars

C18_Witness ==
    /\ PacketRecorded
    /\ success
    /\ accepts = 0
    /\ last.ack = <<0>>
    /\ last.ack_rx = <<1>>
    /\ last.differs
    /\ tries[idx] = 2
    /\ stats.retries_per_packet[idx] = 1
    /\ stats.undetected_errors = 0

\* C19: hamming74_check_and_extract returns ok = True on every 7-bit word,
\* and on hamming74_encode(nibble) with two or more bits inverted it
\* returns ok = True with a nibble different from the one encoded.
C19_HammingAlwaysOk ==
    /\ (c_op = "verify" /\ c_codec = "hamming74" /\ Len(c_rx) = 7)
          => c_out.ok
    /\ c_op = "word"
          => /\ c_out.ok
             /\ Cardinality(c_err) >= 2 => c_out.data # c_in

C19_Witness ==
    /\ c_op = "word"
    /\ c_in = <<1, 0, 1, 1>>
    /\ c_err = {1, 2}
    /\ c_rx = <<1, 0, 1, 0, 0, 1, 1>>
    /\ c_out = Returned(TRUE, <<0, 0, 1, 1>>)

=============================================================================
